---- MODULE Spec2Model ----
(***************************************************************************)
(* Model of the OtpInput React component (src/components/OtpInput.tsx).    *)
(*                                                                         *)
(* A JavaScript string is modelled as a sequence of one-character strings, *)
(* so that "last character", "length" and "join" are computed as the code  *)
(* computes them.  Slots are indexed 0 .. length-1 as in the source.       *)
(***************************************************************************)
EXTENDS Integers, Sequences, FiniteSets, TLC

\* props.length, default value (OtpInput.tsx line 20)
length == 4

\* longest raw text (event.target.value) a change event carries
MaxLen == 2

\* characters the user can enter: two digits, a space, ".".  Texts that
\* Number rejects are built from them (".", "1 9"); a letter would add only
\* further rejected texts.
Alphabet == {"1", "9", " ", "."}

\* digits typed in the plain typing scenario
TypedDigits == {"1", "2", "3", "4"}

\* keys delivered to the key-down handler
Keys == {"Backspace", "ArrowLeft"}

Indices == 0 .. (length - 1)

\* every raw text of at most n characters
Texts(n) == UNION {[1 .. k -> Alphabet] : k \in 0 .. n}

VARIABLES
    otp,        \* useState: the slot sequence, Indices -> string
    focus,      \* index of the input element that holds DOM focus
    submitted,  \* arguments of the onOtpSubmit calls made by the last event
    ev,         \* the last event delivered: kind, index, value, key
    typed,      \* history: digits typed so far in the typing scenario
    allCalls    \* history: every onOtpSubmit argument in the typing scenario

vars == <<otp, focus, submitted, ev, typed, allCalls>>

----------------------------------------------------------------------------
(* JavaScript primitives used by the handlers *)

Digit == {"0", "1", "2", "3", "4", "5", "6", "7", "8", "9"}

WhiteSpace == {" "}

AllDigits(s) == \A k \in 1 .. Len(s) : s[k] \in Digit

RECURSIVE TrimStart(_)
TrimStart(s) ==
    IF s # <<>> /\ Head(s) \in WhiteSpace THEN TrimStart(Tail(s)) ELSE s

RECURSIVE TrimEnd(_)
TrimEnd(s) ==
    IF s # <<>> /\ s[Len(s)] \in WhiteSpace
    THEN TrimEnd(SubSeq(s, 1, Len(s) - 1))
    ELSE s

Trim(s) == TrimEnd(TrimStart(s))

\* StrUnsignedDecimalLiteral without exponent: "12", "12.", "12.5", ".5".
\* Exponents, "Infinity" and the 0x/0o/0b literals need letters that
\* Alphabet does not contain.
IsUnsignedDecimal(u) ==
    \/ u # <<>> /\ AllDigits(u)
    \/ \E k \in 1 .. Len(u) :
          /\ u[k] = "."
          /\ AllDigits(SubSeq(u, 1, k - 1))
          /\ AllDigits(SubSeq(u, k + 1, Len(u)))
          /\ Len(u) > 1

StripSign(t) == IF t # <<>> /\ Head(t) \in {"+", "-"} THEN Tail(t) ELSE t

\* isNaN(Number(value)): Number trims white space, maps "" to 0, and yields
\* NaN unless what is left is a signed decimal literal.
IsNaNNumber(value) ==
    LET t == Trim(value)
    IN  /\ t # <<>>
        /\ ~IsUnsignedDecimal(StripSign(t))

\* variant: keeps the first character instead of the last
LastCharFirst(value) ==
    IF value = <<>> THEN <<>> ELSE <<value[1]>>

\* variant: keeps the whole text
LastCharWhole(value) == value

\* value.substring(value.length - 1)
LastChar(value) ==
    IF value = <<>> THEN <<>> ELSE <<value[Len(value)]>>

\* newOtp.join("")
RECURSIVE JoinFrom(_, _)
JoinFrom(o, k) ==
    IF k > length - 1 THEN <<>> ELSE o[k] \o JoinFrom(o, k + 1)

Join(o) == JoinFrom(o, 0)

\* otp.findIndex((val) => !val)
FindFirstEmpty(o) ==
    IF \E k \in Indices : o[k] = <<>>
    THEN CHOOSE k \in Indices :
            /\ o[k] = <<>>
            /\ \A j \in Indices : o[j] = <<>> => k <= j
    ELSE -1

----------------------------------------------------------------------------
(* The handlers *)

\* newOtp: copy of otp with slot index replaced
WriteSlot(o, index, value) == [o EXCEPT ![index] = LastChar(value)]

\* variant: submits one character early
SubmitCallsEarly(newOtp) ==
    LET combinedOtp == Join(newOtp)
    IN  IF Len(combinedOtp) >= length - 1 THEN <<combinedOtp>> ELSE <<>>

\* the onOtpSubmit calls made for newOtp
SubmitCalls(newOtp) ==
    LET combinedOtp == Join(newOtp)
    IN  IF Len(combinedOtp) = length THEN <<combinedOtp>> ELSE <<>>

\* variant: never advances after a digit
ChangeFocusNoAdvance(index, value, cur) ==
    IF value = <<>> /\ index > 0 THEN index - 1 ELSE cur

\* variant: never steps back after a deletion
ChangeFocusNoBack(index, value, cur) ==
    IF value # <<>> /\ index < length - 1 THEN index + 1 ELSE cur

\* variant: advances without testing that the text is non-empty
ChangeFocusAdvanceAlways(index, value, cur) ==
    LET f1 == IF index < length - 1 THEN index + 1 ELSE cur
    IN  IF value = <<>> /\ index > 0 THEN index - 1 ELSE f1

\* focus after the two focus statements that end handleChange
ChangeFocus(index, value, cur) ==
    LET f1 == IF value # <<>> /\ index < length - 1 THEN index + 1 ELSE cur
    IN  IF value = <<>> /\ index > 0 THEN index - 1 ELSE f1

\* variant: redirects to the slot before the clicked one
ClickFocusPrevious(o, index) ==
    IF index > 0 /\ o[index - 1] = <<>> THEN index - 1 ELSE index

\* variant: never redirects
ClickFocusNoRedirect(o, index) == index

\* variant: redirects to the last empty slot instead of the first
ClickFocusLastEmpty(o, index) ==
    IF index > 0 /\ o[index - 1] = <<>>
    THEN CHOOSE k \in Indices :
            /\ o[k] = <<>>
            /\ \A j \in Indices : o[j] = <<>> => j <= k
    ELSE index

\* focus after a click: the browser focuses the clicked input, then
\* handleClick may redirect
ClickFocus(o, index) ==
    IF index > 0 /\ o[index - 1] = <<>>
    THEN LET firstEmptyIndex == FindFirstEmpty(o)
         IN  IF firstEmptyIndex # -1 THEN firstEmptyIndex ELSE index
    ELSE index

\* variant: steps back without testing that the slot is empty
KeyDownFocusAnySlot(o, index, key, cur) ==
    IF key = "Backspace" /\ index > 0 THEN index - 1 ELSE cur

\* focus after handleKeyDown
KeyDownFocus(o, index, key, cur) ==
    IF key = "Backspace" /\ o[index] = <<>> /\ index > 0
    THEN index - 1
    ELSE cur

\* variant: no early return for a text that is not a number
ChangeEffectNoReject(index, value) ==
    LET newOtp == WriteSlot(otp, index, value)
    IN  /\ otp' = newOtp
        /\ submitted' = SubmitCalls(newOtp)
        /\ focus' = ChangeFocus(index, value, focus)

\* state after handleChange(index, event) with event.target.value = value
ChangeEffect(index, value) ==
    IF IsNaNNumber(value)
    THEN /\ otp' = otp
         /\ focus' = focus
         /\ submitted' = <<>>
    ELSE LET newOtp == WriteSlot(otp, index, value)
         IN  /\ otp' = newOtp
             /\ submitted' = SubmitCalls(newOtp)
             /\ focus' = ChangeFocus(index, value, focus)

\* onChange of input index.  React delivers onChange only when the
\* input's text differs from the controlled value.
HandleChange(index, value) ==
    /\ value # otp[index]
    /\ ChangeEffect(index, value)
    /\ ev' = [kind |-> "change", index |-> index, value |-> value, key |-> ""]
    /\ UNCHANGED <<typed, allCalls>>

\* onClick of input index
HandleClick(index) ==
    /\ focus' = ClickFocus(otp, index)
    /\ otp' = otp
    /\ submitted' = <<>>
    /\ ev' = [kind |-> "click", index |-> index, value |-> <<>>, key |-> ""]
    /\ UNCHANGED <<typed, allCalls>>

\* onKeyDown of input index
HandleKeyDown(index, key) ==
    /\ focus' = KeyDownFocus(otp, index, key, focus)
    /\ otp' = otp
    /\ submitted' = <<>>
    /\ ev' = [kind |-> "keydown", index |-> index, value |-> <<>>, key |-> key]
    /\ UNCHANGED <<typed, allCalls>>

\* typing scenario: the digit d is typed into the focused input, after the
\* text that input shows; handleChange receives the resulting text
TypeDigit(d) ==
    /\ Len(typed) < length
    /\ ChangeEffect(focus, otp[focus] \o <<d>>)
    /\ ev' = [kind |-> "change", index |-> focus,
              value |-> otp[focus] \o <<d>>, key |-> ""]
    /\ typed' = Append(typed, d)
    /\ allCalls' = allCalls \o submitted'

\* mount: all slots empty, the first input focused
Init ==
    /\ otp = [k \in Indices |-> <<>>]
    /\ focus = 0
    /\ submitted = <<>>
    /\ ev = [kind |-> "mount", index |-> 0, value |-> <<>>, key |-> ""]
    /\ typed = <<>>
    /\ allCalls = <<>>

\* keyboard input goes to the input element that holds focus
Change == \E value \in Texts(MaxLen) : HandleChange(focus, value)

Click == \E index \in Indices : HandleClick(index)

KeyDown == \E key \in Keys : HandleKeyDown(focus, key)

Next == Change \/ Click \/ KeyDown

Spec == Init /\ [][Next]_vars

Typing == \E d \in TypedDigits : TypeDigit(d)

NextTyping == Typing

SpecTyping == Init /\ [][NextTyping]_vars

\* keyboard scenario (no clicks): digit keystrokes and Backspace presses on
\* the focused input.  A Backspace press delivers onKeyDown and then, when
\* the input holds a character, onChange with the emptied text.
BackspacePending ==
    /\ ev.kind = "keydown"
    /\ ev.key = "Backspace"
    /\ otp[ev.index] # <<>>

\* the digit d typed before or after the text the focused input shows
KeyDigit(d) ==
    /\ ~BackspacePending
    /\ \E value \in {otp[focus] \o <<d>>, <<d>> \o otp[focus]} :
          HandleChange(focus, value)

\* first half of a Backspace press: onKeyDown of the focused input
BackspaceKeyDown ==
    /\ ~BackspacePending
    /\ HandleKeyDown(focus, "Backspace")

\* second half of a Backspace press: onChange of the same input, emptied
BackspaceInput ==
    /\ BackspacePending
    /\ HandleChange(ev.index, <<>>)

NextKeys ==
    \/ \E d \in TypedDigits : KeyDigit(d)
    \/ BackspaceKeyDown
    \/ BackspaceInput

SpecKeys == Init /\ [][NextKeys]_vars

----------------------------------------------------------------------------
(* Properties *)

\* the last event was a change event that handleChange accepted
AcceptedChange(e) == e.kind = "change" /\ ~IsNaNNumber(e.value)

\* the one-character strings that are decimal digits
DigitSlots == {<<d>> : d \in Digit}

\* C1: from mount, after n digits typed one after another into the focused
\* slot, slots 0 .. n-1 hold those digits in order and the others are empty;
\* the completion callback has not been invoked before the last digit and
\* has been invoked exactly once, with the typed digits, after it.
C1_TypedDigitsSubmitOnce ==
    /\ \A k \in Indices :
          otp[k] = IF k < Len(typed) THEN <<typed[k + 1]>> ELSE <<>>
    /\ allCalls = IF Len(typed) = length THEN <<typed>> ELSE <<>>

C1_Witness ==
    /\ typed = <<"1", "2", "3", "4">>
    /\ allCalls = << <<"1", "2", "3", "4">> >>
    /\ ev.index = length - 1

\* C2: a change event invokes the completion callback iff it is accepted
\* and every slot is non-empty afterwards; it is then invoked once, and
\* character k of its argument is the content of slot k, so the argument
\* has exactly length characters.
C2_SubmitIffComplete ==
    ev.kind = "change" =>
        /\ (submitted # <<>>) <=>
              (~IsNaNNumber(ev.value) /\ \A k \in Indices : otp[k] # <<>>)
        /\ submitted # <<>> =>
              /\ Len(submitted) = 1
              /\ Len(submitted[1]) = length
              /\ \A k \in Indices : otp[k] = <<submitted[1][k + 1]>>

\* slot 2 of a complete sequence overtyped from "1" to "9"
C2_Witness ==
    /\ ev.kind = "change"
    /\ ev.index = 2
    /\ ev.value = <<"1", "9">>
    /\ submitted = << <<"1", "1", "9", "1">> >>

\* C3: a keystroke of a character that is not a digit, typed before or after
\* the text of a slot that is empty or holds a digit, leaves the slots and
\* the focus unchanged and does not invoke the completion callback.
C3_NonDigitKeystrokeIgnored ==
    [][\A c \in Alphabet \ Digit :
          ( /\ ev'.kind = "change"
            /\ otp[ev'.index] \in DigitSlots \cup {<<>>}
            /\ ev'.value \in {otp[ev'.index] \o <<c>>, <<c>> \o otp[ev'.index]} )
          => (otp' = otp /\ submitted' = <<>> /\ focus' = focus)]_vars

\* C4: every slot is empty or holds exactly one decimal digit.
C4_SlotsEmptyOrDigit ==
    \A k \in Indices : otp[k] \in DigitSlots \cup {<<>>}

\* C5: after an accepted change at slot i, focus is on i+1 if the value
\* written is non-empty and i is not the last slot, on i-1 if the value
\* written is empty and i is not the first slot, and unchanged otherwise.
C5_ChangeFocusShift ==
    [][AcceptedChange(ev') =>
          LET i == ev'.index
          IN  focus' = IF otp'[i] # <<>>
                       THEN (IF i < length - 1 THEN i + 1 ELSE focus)
                       ELSE (IF i > 0 THEN i - 1 ELSE focus)]_vars

\* slot 2 cleared between two filled slots: focus steps back to slot 1
C5_Witness ==
    /\ ev.kind = "change"
    /\ ev.value = <<>>
    /\ ev.index = 2
    /\ otp[1] # <<>>
    /\ otp[2] = <<>>
    /\ otp[3] # <<>>
    /\ focus = 1

\* C6: after a click at slot i, if i > 0 and slot i-1 is empty then focus is
\* on the lowest-indexed empty slot, otherwise focus is on slot i.
C6_ClickFocus ==
    [][ev'.kind = "click" =>
          LET i == ev'.index
          IN  IF i > 0 /\ otp[i - 1] = <<>>
              THEN /\ otp[focus'] = <<>>
                   /\ \A j \in Indices : j < focus' => otp[j] # <<>>
              ELSE focus' = i]_vars

\* slots filled, filled, empty, filled; click on slot 3 lands on slot 2
C6_Witness ==
    /\ ev.kind = "click"
    /\ ev.index = 3
    /\ otp[0] # <<>>
    /\ otp[1] # <<>>
    /\ otp[2] = <<>>
    /\ otp[3] # <<>>
    /\ focus = 2

\* C7: after a key-down at slot i, focus is on i-1 if the key is Backspace,
\* slot i is empty and i > 0; otherwise focus is unchanged.
C7_KeyDownFocus ==
    [][ev'.kind = "keydown" =>
          LET i == ev'.index
          IN  focus' = IF ev'.key = "Backspace" /\ otp[i] = <<>> /\ i > 0
                       THEN i - 1
                       ELSE focus]_vars

\* Backspace on the empty slot 2
C7_Witness ==
    /\ ev.kind = "keydown"
    /\ ev.key = "Backspace"
    /\ ev.index = 2
    /\ otp[2] = <<>>
    /\ focus = 1

\* C8: an accepted change at slot i with raw text t writes the last
\* character of t (nothing when t is empty) into slot i and leaves every
\* other slot unchanged; no event changes more than one slot.
C8_OneSlotWritten ==
    [][ /\ AcceptedChange(ev') =>
              LET i == ev'.index
                  t == ev'.value
              IN  /\ otp'[i] = IF t = <<>> THEN <<>> ELSE <<t[Len(t)]>>
                  /\ \A j \in Indices \ {i} : otp'[j] = otp[j]
        /\ Cardinality({k \in Indices : otp'[k] # otp[k]}) <= 1 ]_vars

\* a two-character text whose characters differ was accepted
C8_Witness ==
    /\ AcceptedChange(ev)
    /\ Len(ev.value) = 2
    /\ ev.value[1] # ev.value[2]
    /\ otp[ev.index] = <<ev.value[2]>>
    /\ \E k \in Indices \ {ev.index} : otp[k] # <<>>

\* C9 as stated: whenever some slot is empty, after a click at any slot the
\* focused index is at most the index of every empty slot.
C9_ClickNeverPastFirstGap ==
    [][(ev'.kind = "click" /\ \E k \in Indices : otp[k] = <<>>) =>
          \A k \in Indices : otp[k] = <<>> => focus' <= k]_vars

\* C9 amended: whenever some slot is empty, after a click at slot 0 or at a
\* slot whose preceding slot is empty, the focused index is at most the
\* index of every empty slot.
C9_ClickAfterEmptyNotPastFirstGap ==
    [][( /\ ev'.kind = "click"
         /\ \E k \in Indices : otp[k] = <<>>
         /\ (ev'.index = 0 \/ otp[ev'.index - 1] = <<>>) ) =>
          \A k \in Indices : otp[k] = <<>> => focus' <= k]_vars

\* slots filled, empty, empty, any; click on slot 3 lands on slot 1
C9_Witness ==
    /\ ev.kind = "click"
    /\ ev.index = 3
    /\ otp[0] # <<>>
    /\ otp[1] = <<>>
    /\ otp[2] = <<>>
    /\ focus = 1

\* C10: when a digit e is typed into a slot holding the digit d, the raw
\* text being d followed by e or e followed by d, the slot then holds e.
C10_OvertypeReplaces ==
    [][\A d \in Digit : \A e \in Digit :
          ( /\ ev'.kind = "change"
            /\ otp[ev'.index] = <<d>>
            /\ ev'.value \in {<<d, e>>, <<e, d>>} )
          => otp'[ev'.index] = <<e>>]_vars

\* C11: the slot sequence always has exactly length entries of at most one
\* character each; the joined slots have length characters iff every slot is
\* non-empty; the completion callback is never invoked while a slot is empty.
C11_SlotsShape ==
    /\ DOMAIN otp = Indices
    /\ \A k \in Indices : Len(otp[k]) <= 1
    /\ (Len(Join(otp)) = length) <=> (\A k \in Indices : otp[k] # <<>>)
    /\ submitted # <<>> => \A k \in Indices : otp[k] # <<>>

\* a two-character text accepted into the only empty slot but one:
\* length - 1 slots filled, no callback
C11_Witness ==
    /\ AcceptedChange(ev)
    /\ Len(ev.value) = 2
    /\ Cardinality({k \in Indices : otp[k] # <<>>}) = length - 1
    /\ submitted = <<>>

\* C12: a click or a key-down changes no slot and invokes no callback; a
\* rejected change changes neither the slots, nor the focus, nor invokes the
\* callback.
C12_FrameOfClickKeyDownReject ==
    [][ /\ ev'.kind \in {"click", "keydown"} =>
              (otp' = otp /\ submitted' = <<>>)
        /\ (ev'.kind = "change" /\ IsNaNNumber(ev'.value)) =>
              (otp' = otp /\ focus' = focus /\ submitted' = <<>>) ]_vars

\* a text that is not a number was offered to a slot of a full sequence
C12_Witness ==
    /\ ev.kind = "change"
    /\ IsNaNNumber(ev.value)
    /\ \A k \in Indices : otp[k] # <<>>
    /\ submitted = <<>>
    /\ focus = ev.index

\* a Backspace press on slot ev.index is over
BackspaceDone ==
    \/ ev.kind = "keydown" /\ ev.key = "Backspace" /\ otp[ev.index] = <<>>
    \/ ev.kind = "change" /\ ev.value = <<>>

\* C13: a Backspace press on the focused slot i leaves focus on i-1 when
\* i > 0 and on 0 when i = 0; the key-down on a filled slot does not move
\* focus, so only one of the two handlers shifts it; the press changes no
\* slot other than i.
C13_BackspaceOneStep ==
    /\ [](BackspaceDone =>
            focus = IF ev.index > 0 THEN ev.index - 1 ELSE 0)
    /\ [](BackspacePending => focus = ev.index)
    /\ [][(ev'.kind = "keydown" \/ (ev'.kind = "change" /\ ev'.value = <<>>))
            => \A j \in Indices \ {ev'.index} : otp'[j] = otp[j]]_vars

\* Backspace on the filled slot 2 of a three-digit prefix
C13_Witness ==
    /\ ev.kind = "change"
    /\ ev.value = <<>>
    /\ ev.index = 2
    /\ otp[1] # <<>>
    /\ otp[2] = <<>>
    /\ otp[3] = <<>>
    /\ focus = 1

\* C14: with digit keystrokes and Backspace presses only, no empty slot is
\* followed by a non-empty slot and focus is never past an empty slot.
C14_PrefixAndFocus ==
    \A k \in Indices :
        otp[k] = <<>> =>
            /\ \A j \in Indices : j > k => otp[j] = <<>>
            /\ focus <= k

\* two digits typed, then slot 1 emptied by Backspace
C14_Witness ==
    /\ ev.kind = "change"
    /\ ev.value = <<>>
    /\ ev.index = 1
    /\ otp[0] # <<>>
    /\ otp[1] = <<>>
    /\ focus = 0

\* C15: a click at slot i never leaves focus after slot i; when i > 0 and
\* slot i-1 is empty, findIndex finds an empty slot and focus lands on an
\* empty slot before i.
C15_ClickNeverForward ==
    [][ev'.kind = "click" =>
          LET i == ev'.index
          IN  /\ focus' <= i
              /\ (i > 0 /\ otp[i - 1] = <<>>) =>
                    /\ FindFirstEmpty(otp) # -1
                    /\ focus' < i
                    /\ otp[focus'] = <<>>]_vars

\* click on slot 2 of a sequence whose slots 0 and 1 are empty
C15_Witness ==
    /\ ev.kind = "click"
    /\ ev.index = 2
    /\ otp[0] = <<>>
    /\ otp[1] = <<>>
    /\ otp[2] # <<>>
    /\ focus = 0

====
